---------------------------- MODULE Spec2Model ----------------------------
(***************************************************************************)
(* A model of the ChartingView widget core: the flex arranger              *)
(* (WFlexLayout), the anchor resolver (WLayout), the axis and unit         *)
(* transforms (WChartScaleTransform) and the deferred relayout of          *)
(* BaseComponent (AsyncResizer).                                           *)
(*                                                                         *)
(* C++ int values are TLA+ integers (the values of the model stay far from *)
(* the 32-bit limits, except where the source mixes int and size_t, which  *)
(* is modelled bit-exactly).  C++ float values are rationals                *)
(* <<numerator, denominator>> in lowest terms, and every float operation   *)
(* rounds its result to the nearest value with a 24-bit significand, ties  *)
(* to even, as IEEE 754 binary32 does (the values of the model stay inside *)
(* the normal range, so exponent limits never come into play).             *)
(***************************************************************************)
EXTENDS Integers, Sequences, FiniteSets, TLC

VARIABLES
    children,   \* WFlexLayout: the PreferredSize of each child of the container
    options,    \* WFlexLayout::options
    parentLayout,   \* BaseComponent::_parentLayout of the container: the class it points to
    bParent,    \* the rectangle the container was last laid out in
    bounds,     \* Component bounds of each child
    lines,      \* the lines flushLine was called with in the last pass, in order
    laidOut,    \* a layout pass has run
    axis,       \* an AxisTransform: worldStart, worldEnd, viewportStart, viewportEnd
    calls,      \* the calls made on axis, in order, each with the state it was made in
    unit,       \* a UnitTransform on axis: worldStart, worldEnd
    conv,       \* the conversions made through unit since it or axis last changed
    scales,     \* the WChartScaleTransform objects that exist
    scaleCall,  \* the last call made through a UnitTransform of scales, if any
    wlayout,    \* a WLayout: pivot, offset, borders, anchors
    resolved,   \* the last LayoutBounds call on wlayout, if any: layout, parent, child
    comp,       \* a BaseComponent: its PreferredSize, pending update and log
    container,  \* the BaseComponent that comp is a child of
    ownedChildren,  \* BaseComponent::_ownedChildren: the Component each entry points to
    deletes     \* how many times each Component handed to comp was deleted

flexVars == <<children, options, parentLayout, bParent, bounds, lines, laidOut>>
axisVars == <<axis, calls>>
unitVars == <<unit, conv, scales, scaleCall>>
anchorVars == <<wlayout, resolved>>
compVars == <<comp, container, ownedChildren, deletes>>

vars == <<flexVars, axisVars, unitVars, anchorVars, compVars>>

-----------------------------------------------------------------------------
(* Bounds of the model *)

\* The number of children of the container.
MaxChildren == 3

\* The number of calls made on the AxisTransform.
MaxCalls == 2

\* The number of conversions made through the UnitTransform between two changes.
MaxConversions == 2

\* The number of entries of a component's log.
MaxEvents == 6

\* The number of entries of _ownedChildren.
MaxOwned == 3

-----------------------------------------------------------------------------
(* Integer helpers *)

\* C++ int / int: the quotient truncated toward zero (b # 0).
TruncDiv(a, b) ==
    IF b > 0
    THEN (IF a >= 0 THEN a \div b ELSE -((-a) \div b))
    ELSE (IF a >= 0 THEN -(a \div (-b)) ELSE (-a) \div (-b))

\* std::round of the rational n/d (d > 0): nearest integer, halves away from zero.
RoundHalfAway(n, d) ==
    IF n >= 0 THEN (2 * n + d) \div (2 * d) ELSE -((2 * (-n) + d) \div (2 * d))

jmax(a, b) == IF a >= b THEN a ELSE b

Rect(x, y, w, h) == [x |-> x, y |-> y, w |-> w, h |-> h]

RECURSIVE SumSeq(_)
SumSeq(s) == IF s = <<>> THEN 0 ELSE Head(s) + SumSeq(Tail(s))

-----------------------------------------------------------------------------
(* float values.  A finite float is the rational <<n, d>>, d > 0, in lowest terms;
   <<1, 0>> is +infinity, <<-1, 0>> is -infinity and <<0, 0>> is NaN.  The
   operations are those of IEEE 754 binary32 with round to nearest, ties to even:
   every result is rounded to 24 significant bits.  One zero stands for +0 and -0; the values of the model stay far from the
   limits of the exponent. *)

Abs(a) == IF a >= 0 THEN a ELSE -a

RECURSIVE GCD(_, _)
GCD(a, b) == IF b = 0 THEN a ELSE GCD(b, a % b)

Sign(a) == IF a > 0 THEN 1 ELSE IF a < 0 THEN -1 ELSE 0

\* The rational n/d for d # 0, in lowest terms.
Q(n, d) ==
    LET g == GCD(Abs(n), Abs(d))
    IN  IF d > 0 THEN <<n \div g, d \div g>> ELSE <<(-n) \div g, (-d) \div g>>

\* The number of bits of a float's significand.
SignificandBits == 24
Two24 == 2 ^ SignificandBits

\* The power of two by which a >= 0 exceeds 24 bits.
RECURSIVE Excess(_)
Excess(a) == IF a < Two24 THEN 1 ELSE 2 * Excess(a \div 2)

\* The integer n rounded to 24 significant bits, ties to even.
Round24(n) ==
    LET a == Abs(n)
        u == Excess(a)
        q == a \div u
        r == a % u
        up == 2 * r > u \/ (2 * r = u /\ q % 2 = 1)
    IN  Sign(n) * (IF up THEN q + 1 ELSE q) * u

RECURSIVE IsPowerOfTwo(_)
IsPowerOfTwo(d) == d = 1 \/ (d > 1 /\ d % 2 = 0 /\ IsPowerOfTwo(d \div 2))

\* The quotient (q + r/d) / p, 0 <= r < d, brought to 24 significant bits one bit of
\* the long division at a time, then rounded, ties to even.
RECURSIVE Nearest(_, _, _, _)
Nearest(q, r, d, p) ==
    IF 2 * q >= Two24
    THEN Q(IF 2 * r > d \/ (2 * r = d /\ q % 2 = 1) THEN q + 1 ELSE q, p)
    ELSE Nearest(2 * q + (IF 2 * r >= d THEN 1 ELSE 0), (2 * r) % d, d, 2 * p)

\* The float nearest to the rational x (in lowest terms).
Float(x) ==
    LET a == Abs(x[1])
        d == x[2]
    IN  IF IsPowerOfTwo(d)
        THEN (IF a < Two24 THEN x ELSE Q(Round24(x[1]), d))
        ELSE IF a \div d >= Two24
        THEN LET u == Excess(a \div d)
                 q == (a \div d) \div u
                 r == (a \div d) % u
             IN  <<Sign(x[1]) * (IF 2 * r >= u THEN q + 1 ELSE q) * u, 1>>
        ELSE LET y == Nearest(a \div d, a % d, d, 1)
             IN  <<Sign(x[1]) * y[1], y[2]>>

\* static_cast<float>(int).
F(i) == Float(<<i, 1>>)

NaN == <<0, 0>>
PosInf == <<1, 0>>
NegInf == <<-1, 0>>
Inf(sign) == IF sign > 0 THEN PosInf ELSE NegInf

IsNaN(a) == a = NaN
IsInf(a) == a[2] = 0 /\ a[1] # 0
IsFinite(a) == a[2] > 0

\* The sum of two rationals, exactly.
Sum(a, b) ==
    LET g == GCD(a[2], b[2])
    IN  Q(a[1] * (b[2] \div g) + b[1] * (a[2] \div g), (a[2] \div g) * b[2])

\* The product of two rationals, exactly.
Product(a, b) ==
    LET g1 == GCD(Abs(a[1]), b[2])
        g2 == GCD(Abs(b[1]), a[2])
    IN  Q((a[1] \div g1) * (b[1] \div g2), (a[2] \div g2) * (b[2] \div g1))

\* a + b
FAdd(a, b) ==
    IF IsNaN(a) \/ IsNaN(b) THEN NaN
    ELSE IF IsInf(a) THEN (IF IsInf(b) /\ b # a THEN NaN ELSE a)
    ELSE IF IsInf(b) THEN b
    ELSE Float(Sum(a, b))

\* -a
FNeg(a) == <<-a[1], a[2]>>

\* a - b
FSub(a, b) == FAdd(a, FNeg(b))

\* a * b
FMul(a, b) ==
    IF IsNaN(a) \/ IsNaN(b) THEN NaN
    ELSE IF IsInf(a) \/ IsInf(b)
         THEN (IF a[1] = 0 \/ b[1] = 0 THEN NaN ELSE Inf(Sign(a[1]) * Sign(b[1])))
    ELSE Float(Product(a, b))

\* a / b
FDiv(a, b) ==
    IF IsNaN(a) \/ IsNaN(b) THEN NaN
    ELSE IF IsInf(a) THEN (IF IsInf(b) THEN NaN
                           ELSE Inf(Sign(a[1]) * (IF b[1] < 0 THEN -1 ELSE 1)))
    ELSE IF IsInf(b) THEN <<0, 1>>
    ELSE IF b[1] = 0 THEN (IF a[1] = 0 THEN NaN ELSE Inf(Sign(a[1])))
    ELSE Float(Product(a, Q(b[2], b[1])))

\* a < b: false when either is NaN.
FLt(a, b) ==
    /\ ~IsNaN(a) /\ ~IsNaN(b)
    /\ a # b
    /\ IF IsInf(a) THEN a = NegInf
       ELSE IF IsInf(b) THEN b = PosInf
       ELSE Sum(a, FNeg(b))[1] < 0

\* a == b: false when either is NaN.
FEq(a, b) == ~IsNaN(a) /\ ~IsNaN(b) /\ a = b

\* a <= b
FLe(a, b) == FLt(a, b) \/ FEq(a, b)

\* std::clamp(v, lo, hi): (v < lo) ? lo : (hi < v) ? hi : v
clamp(v, lo, hi) == IF FLt(v, lo) THEN lo ELSE IF FLt(hi, v) THEN hi ELSE v

\* static_cast<int>(std::round(a)) of a finite float.
RoundToInt(a) == RoundHalfAway(a[1], a[2])

-----------------------------------------------------------------------------
(* WFlexLayout (widgets/layout/WFlexLayout.h, WFlexLayout.cpp) *)

Directions == {"Row", "Column"}
JustifyContents ==
    {"FlexStart", "FlexEnd", "Center", "SpaceBetween", "SpaceAround", "SpaceEvenly", "Stretch"}
AlignItemss == {"Stretch", "FlexStart", "FlexEnd", "Center"}
FlexWraps == {"NoWrap", "Wrap"}

\* WPreferredSize as default-constructed.
DefaultPreferredSize ==
    [ignoreLayout |-> FALSE, minWidth |-> 0, minHeight |-> 0,
     preferredWidth |-> 0, preferredHeight |-> 0,
     flexibleWidth |-> 0, flexibleHeight |-> 0]

\* WFlexLayout::Options as default-constructed.
DefaultOptions ==
    [direction |-> "Row", justify |-> "FlexStart", align |-> "Stretch",
     wrap |-> "NoWrap", spacing |-> 0]

IsRow(o) == o.direction = "Row"
PrefMain(o, pref) == IF IsRow(o) THEN pref.preferredWidth ELSE pref.preferredHeight
PrefCross(o, pref) == IF IsRow(o) THEN pref.preferredHeight ELSE pref.preferredWidth
FlexMain(o, pref) == IF IsRow(o) THEN pref.flexibleWidth ELSE pref.flexibleHeight
MinMain(o, pref) == IF IsRow(o) THEN pref.minWidth ELSE pref.minHeight

\* The indices, in order, of the children a layout pass handles.
getValidChildren(cs) ==
    SelectSeq([i \in 1..Len(cs) |-> i], LAMBDA i : ~cs[i].ignoreLayout)

totalPreferredMain(o, cs) ==
    LET v == getValidChildren(cs)
    IN  SumSeq([k \in 1..Len(v) |-> PrefMain(o, cs[v[k]])])

totalFlexible(o, cs) ==
    LET v == getValidChildren(cs)
    IN  SumSeq([k \in 1..Len(v) |-> FlexMain(o, cs[v[k]])])

mainSize(o, bp) == IF IsRow(o) THEN bp.w ELSE bp.h
crossSize(o, bp) == IF IsRow(o) THEN bp.h ELSE bp.w
mainOrigin(o, bp) == IF IsRow(o) THEN bp.x ELSE bp.y
crossOrigin(o, bp) == IF IsRow(o) THEN bp.y ELSE bp.x

remaining(o, bp, cs) ==
    mainSize(o, bp) - totalPreferredMain(o, cs)
        - (Len(getValidChildren(cs)) - 1) * o.spacing

\* The 64-bit size_t of the build and the 16-bit digits the quotient is computed in.
SizeTBits == 64
Two16 == 2 ^ 16

\* int / size_t as line 59, 62 and 66 compute it: the int is converted to size_t
\* (a negative one wraps to 2^64 + r), the division is unsigned, and the quotient
\* is narrowed to int (its low 32 bits).  c is in 1..32767.  A negative r is
\* divided digit by digit, in base 2^16, from the most significant digit.
UnsignedQuotient(r, c) ==
    IF r >= 0 THEN r \div c
    ELSE LET lo == r % Two16
             hi == ((r - lo) \div Two16) + Two16
             top == (SizeTBits \div 16) - 2
             \* the remainder after the top digits, all 65535
             step(rm, d) == (rm * Two16 + d) % c
             quot(rm, d) == (rm * Two16 + d) \div c
             RECURSIVE remAfter(_)
             remAfter(k) == IF k = 0 THEN 0 ELSE step(remAfter(k - 1), Two16 - 1)
             r2 == remAfter(top)
             q1 == quot(r2, hi) % Two16
             r1 == step(r2, hi)
             q0 == quot(r1, lo)
         IN  (IF q1 >= Two16 \div 2 THEN q1 - Two16 ELSE q1) * Two16 + q0

\* `space` after the justify switch (lines 48-74).
justifySpace(o, rem, count) ==
    CASE o.justify = "SpaceBetween" ->
            IF count > 1 THEN UnsignedQuotient(rem, count - 1) ELSE 0
      [] o.justify = "SpaceAround" ->
            IF count > 0 THEN UnsignedQuotient(rem, count) ELSE 0
      [] o.justify = "SpaceEvenly" ->
            IF count > 0 THEN UnsignedQuotient(rem, count + 1) ELSE 0
      [] OTHER -> 0

\* `mainPos` after the justify switch (lines 45-74).
justifyMainPos(o, bp, rem, count) ==
    LET space == justifySpace(o, rem, count)
        origin == mainOrigin(o, bp)
    IN  CASE o.justify = "Center" -> origin + TruncDiv(rem, 2)
          [] o.justify = "FlexEnd" -> origin + rem
          [] o.justify = "SpaceAround" -> origin + TruncDiv(space, 2)
          [] o.justify = "SpaceEvenly" -> origin + space
          [] OTHER -> origin

stretchItems(o) == o.justify = "Stretch"

\* A variant of stretchSize that divides the whole main size, spacing not deducted.
stretchSize_SpacingNotDeducted(o, main, count) ==
    IF stretchItems(o) /\ count > 0 THEN TruncDiv(main, count) ELSE 0

\* `stretchSize` (lines 76-79).
stretchSize(o, main, count) ==
    IF stretchItems(o) /\ count > 0
    THEN TruncDiv(main - (count - 1) * o.spacing, count)
    ELSE 0

\* `sizeMain` of one child (lines 101-109).
sizeMain(o, pref, rem, totalFlex, stretch) ==
    LET flex == FlexMain(o, pref)
        extraMain == IF stretchItems(o) \/ ~(totalFlex > 0 /\ flex > 0)
                     THEN 0
                     ELSE RoundHalfAway(flex * rem, totalFlex)
    IN  IF stretchItems(o)
        THEN jmax(MinMain(o, pref), stretch)
        ELSE jmax(MinMain(o, pref), PrefMain(o, pref) + extraMain)

\* The rectangle flushLine gives one child (lines 111-128).
childBounds(o, pref, localMainPos, crossPos, currentLineCrossSize, size) ==
    LET prefCross == PrefCross(o, pref)
        sizeCross == IF o.align = "Stretch" THEN currentLineCrossSize ELSE prefCross
        posCross == CASE o.align = "Center" ->
                            TruncDiv(currentLineCrossSize - sizeCross, 2)
                      [] o.align = "FlexEnd" -> currentLineCrossSize - sizeCross
                      [] OTHER -> 0
    IN  IF IsRow(o)
        THEN Rect(localMainPos, crossPos + posCross, size, sizeCross)
        ELSE Rect(crossPos + posCross, localMainPos, sizeCross, size)

\* flushLine (lines 83-132) from the k-th child of the line on.
RECURSIVE flushLine(_, _, _, _, _, _, _, _, _)
flushLine(o, bp, cs, line, k, localMainPos, crossPos, currentLineCrossSize, bnds) ==
    IF k > Len(line) THEN bnds
    ELSE LET i == line[k]
             count == Len(getValidChildren(cs))
             size == sizeMain(o, cs[i], remaining(o, bp, cs), totalFlexible(o, cs),
                              stretchSize(o, mainSize(o, bp), count))
             b == childBounds(o, cs[i], localMainPos, crossPos, currentLineCrossSize, size)
         IN  flushLine(o, bp, cs, line, k + 1, localMainPos + size + o.spacing,
                       crossPos, currentLineCrossSize, [bnds EXCEPT ![i] = b])

\* A variant of startsNewLine that tests the space used so far, the next child's
\* extent left out.
startsNewLine_ChildNotCounted(o, bp, usedMain, childMainSize, lineChildren) ==
    /\ o.wrap = "Wrap"
    /\ usedMain > mainSize(o, bp)
    /\ lineChildren # <<>>

\* The test that starts a new line (line 140).
startsNewLine(o, bp, usedMain, childMainSize, lineChildren) ==
    /\ o.wrap = "Wrap"
    /\ usedMain + childMainSize > mainSize(o, bp)
    /\ lineChildren # <<>>

\* mainPos of the lines after the first (line 146).
nextLineMainPos(o, bp, mainPos) == mainOrigin(o, bp)

\* The loop over validChildren (lines 134-157) from the k-th valid child on; st holds
\* the loop's locals, the bounds assigned so far and the lines flushed so far.
RECURSIVE wrapLoop(_, _, _, _, _)
wrapLoop(o, bp, cs, k, st) ==
    LET v == getValidChildren(cs)
        flushed(s) ==
            [s EXCEPT
                !.bnds = flushLine(o, bp, cs, s.lineChildren, 1, s.mainPos, s.crossPos,
                                   s.currentLineCrossSize, s.bnds),
                !.lines = Append(s.lines,
                                 [children |-> s.lineChildren, mainPos |-> s.mainPos,
                                  crossPos |-> s.crossPos,
                                  crossSize |-> s.currentLineCrossSize]),
                !.lineChildren = <<>>]
    IN  IF k > Len(v)
        THEN (IF st.lineChildren # <<>> THEN flushed(st) ELSE st)
        ELSE LET pref == cs[v[k]]
                 childMainSize == PrefMain(o, pref)
                 s1 == IF startsNewLine(o, bp, st.usedMain, childMainSize, st.lineChildren)
                       THEN [flushed(st) EXCEPT
                                !.crossPos = st.crossPos + st.currentLineCrossSize + o.spacing,
                                !.mainPos = nextLineMainPos(o, bp, st.mainPos),
                                !.usedMain = 0,
                                !.currentLineCrossSize = 0]
                       ELSE st
                 s2 == [s1 EXCEPT
                            !.lineChildren = Append(s1.lineChildren, v[k]),
                            !.currentLineCrossSize =
                                jmax(s1.currentLineCrossSize, PrefCross(o, pref)),
                            !.usedMain = s1.usedMain + childMainSize + o.spacing]
             IN  wrapLoop(o, bp, cs, k + 1, s2)

\* WFlexLayout::applyLayout (lines 19-158): the bounds of the children after the
\* pass and the lines it flushed.
applyLayout(o, bp, cs, bnds) ==
    LET v == getValidChildren(cs)
    IN  IF v = <<>> THEN [bnds |-> bnds, lines |-> <<>>]
        ELSE LET st == wrapLoop(o, bp, cs, 1,
                           [lineChildren |-> <<>>, usedMain |-> 0,
                            mainPos |-> justifyMainPos(o, bp, remaining(o, bp, cs), Len(v)),
                            crossPos |-> crossOrigin(o, bp),
                            currentLineCrossSize |-> 0,
                            bnds |-> bnds, lines |-> <<>>])
             IN  [bnds |-> st.bnds, lines |-> st.lines]

-----------------------------------------------------------------------------
(* WChartScaleTransform::AxisTransform (widgets/ui/chart/WChartTransform.h) *)

AxisTransform(wStart, wEnd, vStart, vEnd) ==
    [worldStart |-> wStart, worldEnd |-> wEnd, viewportStart |-> vStart, viewportEnd |-> vEnd]

\* AxisTransform(): AxisTransform(0, 1, 0, 1)
DefaultAxisTransform == AxisTransform(F(0), F(1), F(0), F(1))

getWorldSize(t) == FSub(t.worldEnd, t.worldStart)
getViewportSize(t) == FSub(t.viewportEnd, t.viewportStart)
getZoomLevel(t) == FDiv(getViewportSize(t), getWorldSize(t))

setWorldStart(t, value) == [t EXCEPT !.worldStart = value]
setWorldEnd(t, value) == [t EXCEPT !.worldEnd = value]
setViewportStart(t, value) == [t EXCEPT !.viewportStart = value]
setViewportEnd(t, value) == [t EXCEPT !.viewportEnd = value]

\* A variant of setZoomLevel that takes viewportEnd from the viewportStart it had
\* before the call.
setZoomLevel_EndFromOldStart(t, newZoom, pivot) ==
    LET newViewportSize == FMul(getWorldSize(t), newZoom)
        currentCenter == FAdd(t.viewportStart, FMul(getViewportSize(t), pivot))
    IN  [t EXCEPT !.viewportStart = FSub(currentCenter, FMul(newViewportSize, pivot)),
                  !.viewportEnd = FAdd(t.viewportStart, newViewportSize)]

setZoomLevel(t, newZoom, pivot) ==
    LET worldSize == getWorldSize(t)
        newViewportSize == FMul(worldSize, newZoom)
        currentCenter == FAdd(t.viewportStart, FMul(getViewportSize(t), pivot))
        start == FSub(currentCenter, FMul(newViewportSize, pivot))
    IN  [t EXCEPT !.viewportStart = start,
                  !.viewportEnd = FAdd(start, newViewportSize)]

\* A variant of zoomIn that does not clamp the next zoom level.
zoomIn_NoClamp(t, zoomStep, pivot) ==
    LET zoom == getZoomLevel(t)
        nextZoom == FAdd(zoom, zoomStep)
    IN  IF ~FEq(nextZoom, zoom) THEN setZoomLevel(t, nextZoom, pivot) ELSE t

zoomIn(t, zoomStep, pivot) ==
    LET zoom == getZoomLevel(t)
        nextZoom == clamp(FAdd(zoom, zoomStep), F(0), F(1))
    IN  IF ~FEq(nextZoom, zoom) THEN setZoomLevel(t, nextZoom, pivot) ELSE t

\* A variant of zoomOut that passes the step on as it is.
zoomOut_StepNotNegated(t, zoomStep, pivot) == zoomIn(t, zoomStep, pivot)

zoomOut(t, zoomStep, pivot) == zoomIn(t, FNeg(zoomStep), pivot)

worldToViewport(t, k) == FSub(k, t.viewportStart)
viewportToWorld(t, k) == FAdd(t.viewportStart, k)

-----------------------------------------------------------------------------
(* WChartScaleTransform::UnitTransform (widgets/ui/chart/WChartTransform.h).
   A UnitTransform u holds worldStart and worldEnd; t is the AxisTransform its
   axisT member refers to. *)

UnitTransform(wStart, wEnd) == [worldStart |-> wStart, worldEnd |-> wEnd]

\* A variant of mapValue that leaves out_min out of the result.
mapValue_OutMinNotAdded(x, in_min, in_max, out_min, out_max) ==
    FDiv(FMul(FSub(x, in_min), FSub(out_max, out_min)), FSub(in_max, in_min))

\* (x - in_min) * (out_max - out_min) / (in_max - in_min) + out_min
mapValue(x, in_min, in_max, out_min, out_max) ==
    FAdd(FDiv(FMul(FSub(x, in_min), FSub(out_max, out_min)), FSub(in_max, in_min)), out_min)

axisWorldToUnitWorld(u, t, k) ==
    mapValue(k, t.worldStart, t.worldEnd, u.worldStart, u.worldEnd)

unitWorldToAxisWorld(u, t, k) ==
    mapValue(k, u.worldStart, u.worldEnd, t.worldStart, t.worldEnd)

axisViewportToUnitViewport(u, t, k) ==
    mapValue(k, t.viewportStart, t.viewportEnd, u.worldStart, u.worldEnd)

unitViewportToAxisViewport(u, t, k) ==
    mapValue(k, u.worldStart, u.worldEnd, t.viewportStart, t.viewportEnd)

unitSetWorldStart(u, value) == [u EXCEPT !.worldStart = value]
unitSetWorldEnd(u, value) == [u EXCEPT !.worldEnd = value]

unitGetViewportStart(u, t) == axisWorldToUnitWorld(u, t, t.viewportStart)
unitGetViewportEnd(u, t) == axisWorldToUnitWorld(u, t, t.viewportEnd)

-----------------------------------------------------------------------------
(* WChartScaleTransform (widgets/ui/chart/WChartTransform.h, lines 162-175).  The
   objects that exist are the domain of ss; each holds xWorld, xUnit, yWorld and
   yUnit by value.  The reference member axisT of a UnitTransform is the pair of
   the object and of the member it refers to. *)

\* The AxisTransform a reference refers to.
Referent(ss, ref) == ss[ref[1]][ref[2]]

\* UnitTransform(AxisTransform& axisT): worldStart and worldEnd are left
\* uninitialized and hold wStart and wEnd.
ScaleUnitTransform(ref, wStart, wEnd) ==
    [axisT |-> ref, worldStart |-> wStart, worldEnd |-> wEnd]

\* WChartScaleTransform::WChartScaleTransform for the object id: xUnit(xWorld),
\* yUnit(yWorld); ux and uy hold what the uninitialized members of the two
\* UnitTransforms hold.
WChartScaleTransform(id, ux, uy) ==
    [xWorld |-> DefaultAxisTransform,
     xUnit |-> ScaleUnitTransform(<<id, "xWorld">>, ux[1], ux[2]),
     xDir |-> "left_to_right",
     yWorld |-> DefaultAxisTransform,
     yUnit |-> ScaleUnitTransform(<<id, "yWorld">>, uy[1], uy[2]),
     yDir |-> "bot_to_top"]

\* The implicit copy constructor of UnitTransform: the reference of the copy is
\* bound to what the reference of u refers to.
CopyUnitTransform(u) ==
    [axisT |-> u.axisT, worldStart |-> u.worldStart, worldEnd |-> u.worldEnd]

\* The implicit copy constructor of WChartScaleTransform: each member is copied
\* from the same member of s.
CopyWChartScaleTransform(s) ==
    [xWorld |-> s.xWorld, xUnit |-> CopyUnitTransform(s.xUnit), xDir |-> s.xDir,
     yWorld |-> s.yWorld, yUnit |-> CopyUnitTransform(s.yUnit), yDir |-> s.yDir]

\* ss after the AxisTransform u.axisT refers to became t.
SetReferent(ss, u, t) == [ss EXCEPT ![u.axisT[1]][u.axisT[2]] = t]

\* UnitTransform::setZoomLevel: axisT.setZoomLevel(newZoom, pivot)
scaleUnitSetZoomLevel(ss, u, newZoom, pivot) ==
    SetReferent(ss, u, setZoomLevel(Referent(ss, u.axisT), newZoom, pivot))

\* UnitTransform::zoomIn: axisT.zoomIn(zoomStep, pivot)
scaleUnitZoomIn(ss, u, zoomStep, pivot) ==
    SetReferent(ss, u, zoomIn(Referent(ss, u.axisT), zoomStep, pivot))

\* UnitTransform::setViewportStart:
\* axisT.setViewportStart(unitWorldToAxisWorld(value))
scaleUnitSetViewportStart(ss, u, value) ==
    LET t == Referent(ss, u.axisT)
    IN  SetReferent(ss, u, setViewportStart(t, unitWorldToAxisWorld(u, t, value)))

-----------------------------------------------------------------------------
(* WLayout (widgets/layout/WLayout.h).  pivot is Point<float>, offset is
   Rectangle<float> (x, y, w, h), anchors and borders are BorderSize<float>. *)

Point(x, y) == [x |-> x, y |-> y]
BorderSize(top, left, bottom, right) ==
    [top |-> top, left |-> left, bottom |-> bottom, right |-> right]

\* WLayout::WLayout()
DefaultWLayout ==
    [pivot |-> Point(Q(1, 2), Q(1, 2)),
     offset |-> Rect(F(0), F(0), F(0), F(0)),
     borders |-> BorderSize(F(0), F(0), F(0), F(0)),
     anchors |-> BorderSize(F(0), F(0), F(1), F(1))]

\* A variant of LayoutBounds whose fixed axes take the anchored span as the size.
LayoutBounds_FixedFromSpan(l, bp) ==
    LET xMin == FAdd(FAdd(F(bp.x), FMul(l.anchors.left, F(bp.w))), l.offset.x)
        yMin == FAdd(FAdd(F(bp.y), FMul(l.anchors.top, F(bp.h))), l.offset.y)
        xMax == FSub(FAdd(F(bp.x), FMul(l.anchors.right, F(bp.w))), l.offset.w)
        yMax == FSub(FAdd(F(bp.y), FMul(l.anchors.bottom, F(bp.h))), l.offset.h)
        w == FSub(xMax, xMin)
        h == FSub(yMax, yMin)
        x == FAdd(xMin, FMul(FSub(Q(1, 2), l.pivot.x), w))
        y == FAdd(yMin, FMul(FSub(Q(1, 2), l.pivot.y), h))
    IN  Rect(RoundToInt(x), RoundToInt(y), RoundToInt(w), RoundToInt(h))

\* WLayout::LayoutBounds
LayoutBounds(l, bp) ==
    LET anchorStretchX == l.anchors.left # l.anchors.right
        anchorStretchY == l.anchors.top # l.anchors.bottom
        parentX == F(bp.x)
        parentY == F(bp.y)
        parentW == F(bp.w)
        parentH == F(bp.h)
        xMin == FAdd(FAdd(parentX, FMul(l.anchors.left, parentW)), l.offset.x)
        yMin == FAdd(FAdd(parentY, FMul(l.anchors.top, parentH)), l.offset.y)
        xMax == FSub(FAdd(parentX, FMul(l.anchors.right, parentW)), l.offset.w)
        yMax == FSub(FAdd(parentY, FMul(l.anchors.bottom, parentH)), l.offset.h)
        w == IF anchorStretchX THEN FSub(xMax, xMin) ELSE l.offset.w
        x == IF anchorStretchX
             THEN FAdd(xMin, FMul(FSub(Q(1, 2), l.pivot.x), w))
             ELSE FSub(xMin, FMul(l.pivot.x, w))
        h == IF anchorStretchY THEN FSub(yMax, yMin) ELSE l.offset.h
        y == IF anchorStretchY
             THEN FAdd(yMin, FMul(FSub(Q(1, 2), l.pivot.y), h))
             ELSE FSub(yMin, FMul(l.pivot.y, h))
    IN  Rect(RoundToInt(x), RoundToInt(y), RoundToInt(w), RoundToInt(h))

-----------------------------------------------------------------------------
(* The layout passes of a BaseComponent (widgets/ui/BaseComponent.cpp, lines 14-27
   and 78-86; widgets/layout/WLayout.cpp).  cs holds the PreferredSize of each
   child, bnds the bounds of each child; the children are BaseComponents. *)

\* _parentLayout as constructed: a null pointer.
NoParentLayout == "nullptr"

\* The classes _parentLayout can point to.
ParentLayouts == { NoParentLayout, "WBaseComponentLayout", "WFlexLayout" }

\* A variant of WParentLayout_getValidChildren that does not test ignoreLayout.
WParentLayout_getValidChildren_AllChildren(cs) == [i \in 1..Len(cs) |-> i]

\* WParentLayout::getValidChildren: the indices, in order, of the children whose
\* PreferredSize does not say ignoreLayout.
WParentLayout_getValidChildren(cs) ==
    SelectSeq([i \in 1..Len(cs) |-> i], LAMBDA i : ~cs[i].ignoreLayout)

\* WParentLayout::applyLayout: every valid child gets the bounds its WLayout
\* resolves to in bParent; layouts holds the WLayout of each child.
WParentLayout_applyLayout(bp, cs, layouts, bnds) ==
    LET v == WParentLayout_getValidChildren(cs)
    IN  [i \in 1..Len(bnds) |->
            IF \E k \in 1..Len(v) : v[k] = i
            THEN LayoutBounds(layouts[i], bp)
            ELSE bnds[i]]

\* WBaseComponentLayout::applyLayout: the first valid child gets bParent.
WBaseComponentLayout_applyLayout(bp, cs, bnds) ==
    LET c == WParentLayout_getValidChildren(cs)
    IN  IF c = <<>> THEN bnds ELSE [bnds EXCEPT ![c[1]] = bp]

\* BaseComponent::applyLayout with bParent already computed: the pass of
\* _parentLayout, or of a WParentLayout when there is none.  The result holds the
\* bounds of the children and the lines a WFlexLayout flushed.
BaseComponent_applyLayout(pl, o, bp, cs, layouts, bnds) ==
    CASE pl = "WFlexLayout" -> applyLayout(o, bp, cs, bnds)
      [] pl = "WBaseComponentLayout" ->
            [bnds |-> WBaseComponentLayout_applyLayout(bp, cs, bnds), lines |-> <<>>]
      [] OTHER ->
            [bnds |-> WParentLayout_applyLayout(bp, cs, layouts, bnds), lines |-> <<>>]

-----------------------------------------------------------------------------
(* BaseComponent and its deferred relayout (widgets/ui/BaseComponent.cpp,
   utils/AsyncResizer.h, utils/AsyncUpdaterLambda.h, WPreferredSize in WLayout.h).
   A component c holds its WPreferredSize (the listeners registered on it
   included), whether its AsyncUpdater has an update pending, whether it is alive
   (constructed and not yet destroyed), and the log of what happened to it:
   "trigger" (triggerAsyncResize was called), "tick" (an idle tick of the message
   loop), "host" (the host changed its bounds), "resized" (BaseComponent::resized
   ran) and "destroy" (the component was destroyed). *)

\* The listener the constructor registers (_preferredSizeListener).
OwnListener == "self"

\* BaseComponent::BaseComponent: the component's own listener is registered on its
\* PreferredSize and nothing is pending.
NewBaseComponent ==
    [wPreferredSize |-> [preferredWidth |-> 0, preferredHeight |-> 0,
                         listeners |-> <<OwnListener>>],
     updatePending |-> FALSE,
     alive |-> TRUE,
     log |-> <<>>]

\* BaseComponent::resized: applyLayout runs the layout pass over the children.
resized(c) == [c EXCEPT !.log = Append(@, "resized")]

\* juce::AsyncUpdater::triggerAsyncUpdate: an update is pending until the message
\* loop delivers it; triggering while one is pending changes nothing.
triggerAsyncUpdate(c) == [c EXCEPT !.updatePending = TRUE]

\* A variant of triggerAsyncResize that runs resized at once.
triggerAsyncResize_Immediate(c) == resized([c EXCEPT !.log = Append(@, "trigger")])

\* AsyncResizer::triggerAsyncResize, called by BaseComponent::triggerAsyncResize.
triggerAsyncResize(c) == triggerAsyncUpdate([c EXCEPT !.log = Append(@, "trigger")])

\* AsyncResizer's onAsyncUpdate: c->resized()
onAsyncUpdate(c) == resized(c)

\* AsyncUpdaterLambda::handleAsyncUpdate
handleAsyncUpdate(c) == onAsyncUpdate(c)

\* Listener::onPreferredSizeChange of listener l: the component's own listener
\* calls triggerAsyncResize; another object's listener does not touch the component.
onPreferredSizeChange(c, l) ==
    IF l = OwnListener THEN triggerAsyncResize(c) ELSE c

\* WPreferredSize::notifyListeners, from the k-th listener on.
RECURSIVE notifyListeners(_, _)
notifyListeners(c, k) ==
    IF k > Len(c.wPreferredSize.listeners) THEN c
    ELSE notifyListeners(onPreferredSizeChange(c, c.wPreferredSize.listeners[k]), k + 1)

\* WPreferredSize::setPreferredWidth
setPreferredWidth(c, v, notify) ==
    IF c.wPreferredSize.preferredWidth # v
    THEN LET c1 == [c EXCEPT !.wPreferredSize.preferredWidth = v]
         IN  IF notify THEN notifyListeners(c1, 1) ELSE c1
    ELSE c

\* WPreferredSize::setPreferredSize
setPreferredSize(c, w, h, notify) ==
    LET c1 == [c EXCEPT !.wPreferredSize.preferredWidth = w,
                        !.wPreferredSize.preferredHeight = h]
    IN  IF notify THEN notifyListeners(c1, 1) ELSE c1

\* An idle tick of the message loop: a pending update is delivered, once, to
\* handleAsyncUpdate.
idleTick(c) ==
    LET c1 == [c EXCEPT !.log = Append(@, "tick")]
    IN  IF c.updatePending
        THEN handleAsyncUpdate([c1 EXCEPT !.updatePending = FALSE])
        ELSE c1

\* The host changes the component's bounds and calls resized.
hostResized(c) == resized([c EXCEPT !.log = Append(@, "host")])

\* juce::AsyncUpdater::~AsyncUpdater: a pending update is cancelled, the message
\* loop will not deliver it.
cancelPendingUpdate(c) == [c EXCEPT !.updatePending = FALSE]

\* A variant of destroyMembers in which the AsyncResizer is not destroyed with
\* the component.
destroyMembers_ResizerOutlives(c) == [c EXCEPT !.alive = FALSE]

\* The destruction of the members of a BaseComponent, _asyncResizer among them
\* (an AsyncUpdater held by value), once the body of the destructor has run.
destroyMembers(c) == [cancelPendingUpdate(c) EXCEPT !.alive = FALSE]

-----------------------------------------------------------------------------
(* The children a BaseComponent owns (widgets/ui/BaseComponent.cpp, lines 97-115).
   The owner o is the pair of _ownedChildren, the Component each entry points to, in
   order, and of deletes, the number of times each Component was deleted.  UPtr is
   not defined in the sources at hand: it is the unique-ownership handle of the
   design notes, which deletes the Component it points to when it is destroyed. *)

\* The Components handed to a BaseComponent (WChartingView.cpp, lines 20-22).
Components == { "c1", "c2", "c3" }

Owner(list, d) == [ownedChildren |-> list, deletes |-> d]

\* UPtr<Component>::~UPtr on a handle that points to c: c is deleted.
destroyUPtr(d, c) == [d EXCEPT ![c] = @ + 1]

\* The deletions of the Components the handles of list point to.
RECURSIVE destroyAll(_, _)
destroyAll(d, list) ==
    IF list = <<>> THEN d ELSE destroyAll(destroyUPtr(d, Head(list)), Tail(list))

\* BaseComponent::addOwnedChildren: _ownedChildren.emplace_back(c)
addOwnedChildren(o, c) == [o EXCEPT !.ownedChildren = Append(@, c)]

\* std::vector::erase of entry i: the handle is destroyed, the later ones move down.
erase(o, i) ==
    Owner([k \in 1..(Len(o.ownedChildren) - 1) |->
               IF k < i THEN o.ownedChildren[k] ELSE o.ownedChildren[k + 1]],
          destroyUPtr(o.deletes, o.ownedChildren[i]))

\* BaseComponent::removeOwnedChildren, the loop from entry i down to the first.
RECURSIVE removeOwnedChildrenFrom(_, _, _)
removeOwnedChildrenFrom(o, c, i) ==
    IF i < 1 THEN o
    ELSE removeOwnedChildrenFrom(IF o.ownedChildren[i] = c THEN erase(o, i) ELSE o,
                                 c, i - 1)

\* BaseComponent::removeOwnedChildren
removeOwnedChildren(o, c) == removeOwnedChildrenFrom(o, c, Len(o.ownedChildren))

\* BaseComponent::clearOwnedChildren: _ownedChildren.clear()
clearOwnedChildren(o) == Owner(<<>>, destroyAll(o.deletes, o.ownedChildren))

\* BaseComponent::ownAndMakeVisible: addAndMakeVisible(c) makes c a visible child
\* and touches no handle; addOwnedChildren(c) follows.
ownAndMakeVisible(o, c) == addOwnedChildren(o, c)

\* BaseComponent::~BaseComponent on the component itself: the body has run, the
\* members are destroyed.
destroy(c) == destroyMembers([c EXCEPT !.log = Append(@, "destroy")])

-----------------------------------------------------------------------------
-----------------------------------------------------------------------------
(* The listeners of a WPreferredSize and BaseComponent::setPreferredSize
   (widgets/layout/WLayout.h, widgets/ui/BaseComponent.cpp) *)

\* WPreferredSize() = default: every extent 0 and no listener.
NewWPreferredSize == [preferredWidth |-> 0, preferredHeight |-> 0, listeners |-> <<>>]

\* WPreferredSize::addListener: l is appended unless it is registered already.
addListener(c, l) ==
    IF \E k \in DOMAIN c.wPreferredSize.listeners : c.wPreferredSize.listeners[k] = l
    THEN c
    ELSE [c EXCEPT !.wPreferredSize.listeners = Append(@, l)]

\* WPreferredSize::removeListener: every occurrence of l is erased.
removeListener(c, l) ==
    [c EXCEPT !.wPreferredSize.listeners = SelectSeq(@, LAMBDA x : x # l)]

\* BaseComponent::setPreferredSize(psize): _wPreferredSize = psize, the implicit
\* copy assignment of WPreferredSize, which copies every member, _listeners
\* included, and notifies nobody.
BaseComponent_setPreferredSize(c, psize) == [c EXCEPT !.wPreferredSize = psize]


-----------------------------------------------------------------------------
(* The state machines.  Each part of the core is explored by a specification of
   its own, the other parts staying as constructed. *)

\* A container with no child, before its first layout pass.
FlexIdle ==
    /\ children = <<>>
    /\ options = DefaultOptions
    /\ parentLayout = NoParentLayout
    /\ bParent = Rect(0, 0, 0, 0)
    /\ bounds = <<>>
    /\ lines = <<>>
    /\ laidOut = FALSE

\* AxisTransform()
AxisIdle ==
    /\ axis = DefaultAxisTransform
    /\ calls = <<>>

\* A UnitTransform whose range was set to that of AxisTransform().
UnitIdle ==
    /\ unit = UnitTransform(F(0), F(1))
    /\ conv = <<>>
    /\ scales = <<>>
    /\ scaleCall = <<>>

\* WLayout()
AnchorIdle ==
    /\ wlayout = DefaultWLayout
    /\ resolved = <<>>

\* BaseComponent()
CompIdle ==
    /\ comp = NewBaseComponent
    /\ container = NewBaseComponent
    /\ ownedChildren = <<>>
    /\ deletes = [c \in Components |-> 0]

-----------------------------------------------------------------------------
(* The container and its children: BaseComponent::resized -> applyLayout *)

\* The PreferredSize values the children of the model are given (WLayout.h:137-216).
ChildKinds ==
    { [DefaultPreferredSize EXCEPT !.preferredWidth = 50, !.preferredHeight = 20],
      [DefaultPreferredSize EXCEPT !.preferredWidth = 20, !.preferredHeight = 50,
                                   !.flexibleWidth = 1, !.flexibleHeight = 1],
      [DefaultPreferredSize EXCEPT !.preferredWidth = 50, !.preferredHeight = 20,
                                   !.minWidth = 60, !.minHeight = 30],
      [DefaultPreferredSize EXCEPT !.preferredWidth = 50, !.preferredHeight = 50,
                                   !.ignoreLayout = TRUE] }

Spacings == {0, 10}

\* The rectangles the host gives the container.
ParentRects == { Rect(0, 0, 300, 40), Rect(5, 3, 100, 60) }

OptionsSet ==
    [direction : Directions, justify : JustifyContents, align : AlignItemss,
     wrap : FlexWraps, spacing : Spacings]

ChildLists == UNION { [1..n -> ChildKinds] : n \in 0..MaxChildren }

\* A container with a WFlexLayout and its children, before the host's first resize:
\* a new juce::Component has empty bounds.
InitFlex ==
    /\ children \in ChildLists
    /\ options \in OptionsSet
    /\ parentLayout = "WFlexLayout"
    /\ bParent = Rect(0, 0, 0, 0)
    /\ bounds = [i \in 1..Len(children) |-> Rect(0, 0, 0, 0)]
    /\ lines = <<>>
    /\ laidOut = FALSE
    /\ AxisIdle /\ UnitIdle /\ AnchorIdle /\ CompIdle

\* The host changes the container's bounds: BaseComponent::resized runs the layout
\* pass of its WFlexLayout over the children (BaseComponent.cpp:44-46, 78-86).
Resized(r) ==
    LET res == applyLayout(options, r, children, bounds)
    IN  /\ bParent' = r
        /\ bounds' = res.bnds
        /\ lines' = res.lines
        /\ laidOut' = TRUE
        /\ UNCHANGED <<children, options, parentLayout>>
        /\ UNCHANGED <<axisVars, unitVars, anchorVars, compVars>>

NextFlex == \E r \in ParentRects : Resized(r)

SpecFlex == InitFlex /\ [][NextFlex]_vars

-----------------------------------------------------------------------------
(* The container under each of its layout strategies *)

\* The options of the WFlexLayout of this machine.
PassOptions ==
    [direction : Directions, justify : {"FlexStart", "Stretch"},
     align : {"Center"}, wrap : FlexWraps, spacing : {10}]

\* The children of this machine: the kinds of ChildKinds that ask for no minimum.
PassChildLists ==
    UNION { [1..n -> { k \in ChildKinds : k.minWidth = 0 }] : n \in 0..MaxChildren }

\* The bounds of the children before the first pass: those of new Components, or
\* bounds given to each child by hand.
PlacedByHand(n) == [i \in 1..n |-> Rect(i, 2 * i, 30 + i, 4)]
InitialBounds(n) == { [i \in 1..n |-> Rect(0, 0, 0, 0)], PlacedByHand(n) }

\* A new container (no _parentLayout) and its children, each with the WLayout
\* wlayout.
InitPass ==
    /\ children \in PassChildLists
    /\ options \in PassOptions
    /\ parentLayout = NoParentLayout
    /\ bParent = Rect(0, 0, 0, 0)
    /\ bounds \in InitialBounds(Len(children))
    /\ lines = <<>>
    /\ laidOut = FALSE
    /\ AxisIdle /\ UnitIdle /\ AnchorIdle /\ CompIdle

\* BaseComponent::setParentLayout
SetParentLayout(pl) ==
    /\ parentLayout' = pl
    /\ UNCHANGED <<children, options, bParent, bounds, lines, laidOut>>
    /\ UNCHANGED <<axisVars, unitVars, anchorVars, compVars>>

\* The host changes the container's bounds: BaseComponent::resized runs
\* applyLayout.
LayoutPass(r) ==
    LET res == BaseComponent_applyLayout(parentLayout, options, r, children,
                                         [i \in 1..Len(children) |-> wlayout], bounds)
    IN  /\ bParent' = r
        /\ bounds' = res.bnds
        /\ lines' = res.lines
        /\ laidOut' = TRUE
        /\ UNCHANGED <<children, options, parentLayout>>
        /\ UNCHANGED <<axisVars, unitVars, anchorVars, compVars>>

NextPass ==
    \/ \E pl \in ParentLayouts : SetParentLayout(pl)
    \/ \E r \in ParentRects : LayoutPass(r)

SpecPass == InitPass /\ [][NextPass]_vars

-----------------------------------------------------------------------------
(* The AxisTransform and its callers *)

\* A viewportStart whose sum with a world size of 64 is not a float: 64 + 3/2^17.
FineStart == Q(64 * 2 ^ 17 + 3, 2 ^ 17)

\* The AxisTransform objects the model starts from, AxisTransform(0, 1, 0, 1) and
\* results of AxisTransform(wStart, wEnd, vStart, vEnd): every world range is
\* non-degenerate; the zoom levels are 1, 1/2, 5/4, 0, 1/2 (a reversed world), -1/2,
\* and 1/2 and 0 (viewports that start at FineStart).
InitAxes ==
    { DefaultAxisTransform,
      AxisTransform(F(0), F(100), F(0), F(50)),
      AxisTransform(F(0), F(100), F(0), F(125)),
      AxisTransform(F(0), F(100), F(25), F(25)),
      AxisTransform(F(4), F(0), F(0), F(-2)),
      AxisTransform(F(0), F(100), F(50), F(0)),
      AxisTransform(F(0), F(64), FineStart, FAdd(FineStart, F(32))),
      AxisTransform(F(0), F(64), FineStart, FineStart) }

Zooms == { F(0), Q(1, 4), F(1) }
Pivots == { F(0), Q(1, 2), F(1) }
ZoomSteps == { Q(1, 4), Q(-1, 2), F(2) }
ViewportStarts == { F(0) }
ViewportEnds == { F(50) }

InitAxis ==
    /\ axis \in InitAxes
    /\ calls = <<>>
    /\ FlexIdle /\ UnitIdle /\ AnchorIdle /\ CompIdle

Call(op, arg, pivot) == [op |-> op, arg |-> arg, pivot |-> pivot, before |-> axis]

SetZoomLevel(newZoom, pivot) ==
    /\ Len(calls) < MaxCalls
    /\ axis' = setZoomLevel(axis, newZoom, pivot)
    /\ calls' = Append(calls, Call("setZoomLevel", newZoom, pivot))
    /\ UNCHANGED <<flexVars, unitVars, anchorVars, compVars>>

ZoomIn(zoomStep, pivot) ==
    /\ Len(calls) < MaxCalls
    /\ axis' = zoomIn(axis, zoomStep, pivot)
    /\ calls' = Append(calls, Call("zoomIn", zoomStep, pivot))
    /\ UNCHANGED <<flexVars, unitVars, anchorVars, compVars>>

ZoomOut(zoomStep, pivot) ==
    /\ Len(calls) < MaxCalls
    /\ axis' = zoomOut(axis, zoomStep, pivot)
    /\ calls' = Append(calls, Call("zoomOut", zoomStep, pivot))
    /\ UNCHANGED <<flexVars, unitVars, anchorVars, compVars>>

SetViewportStart(value) ==
    /\ Len(calls) < MaxCalls
    /\ axis' = setViewportStart(axis, value)
    /\ calls' = Append(calls, Call("setViewportStart", value, NaN))
    /\ UNCHANGED <<flexVars, unitVars, anchorVars, compVars>>

SetViewportEnd(value) ==
    /\ Len(calls) < MaxCalls
    /\ axis' = setViewportEnd(axis, value)
    /\ calls' = Append(calls, Call("setViewportEnd", value, NaN))
    /\ UNCHANGED <<flexVars, unitVars, anchorVars, compVars>>

NextAxis ==
    \/ \E z \in Zooms, p \in Pivots : SetZoomLevel(z, p)
    \/ \E st \in ZoomSteps, p \in Pivots : ZoomIn(st, p)
    \/ \E st \in ZoomSteps, p \in Pivots : ZoomOut(st, p)
    \/ \E v \in ViewportStarts : SetViewportStart(v)
    \/ \E v \in ViewportEnds : SetViewportEnd(v)

SpecAxis == InitAxis /\ [][NextAxis]_vars

-----------------------------------------------------------------------------
(* The UnitTransform and its callers *)

\* The AxisTransform objects a UnitTransform of the model refers to: world ranges
\* of size 1, 4, -4, 8, 3 and a degenerate one.
UnitAxes ==
    { DefaultAxisTransform,
      AxisTransform(F(0), F(4), F(0), F(2)),
      AxisTransform(F(4), F(0), F(0), F(-2)),
      AxisTransform(F(-2), F(6), F(0), F(8)),
      AxisTransform(F(0), F(3), F(0), F(3)),
      AxisTransform(F(3), F(3), F(0), F(1)) }

\* The values worldStart and worldEnd of a UnitTransform take: the constructor
\* leaves both uninitialized, so that they hold any float, NaN included, until
\* setWorldStart and setWorldEnd are called.
UnitValues == { F(0), F(5), F(20), NaN }

\* The values that are converted; the last one, 1 + 1/2^23, has a product with 20
\* that is not a float.
UnitInputs == { F(0), F(1), F(25), F(-50), Q(2 ^ 23 + 1, 2 ^ 23) }

InitUnit ==
    /\ axis \in UnitAxes
    /\ calls = <<>>
    /\ unit \in [worldStart : UnitValues, worldEnd : UnitValues]
    /\ conv = <<>>
    /\ scales = <<>>
    /\ scaleCall = <<>>
    /\ FlexIdle /\ AnchorIdle /\ CompIdle

Conversion(op, arg, result) == [op |-> op, arg |-> arg, result |-> result]

UnitSetWorldStart(value) ==
    /\ unit' = unitSetWorldStart(unit, value)
    /\ conv' = <<>>
    /\ UNCHANGED <<scales, scaleCall, flexVars, axisVars, anchorVars, compVars>>

UnitSetWorldEnd(value) ==
    /\ unit' = unitSetWorldEnd(unit, value)
    /\ conv' = <<>>
    /\ UNCHANGED <<scales, scaleCall, flexVars, axisVars, anchorVars, compVars>>

AxisWorldToUnitWorld(k) ==
    /\ Len(conv) < MaxConversions
    /\ conv' = Append(conv, Conversion("axisWorldToUnitWorld", k,
                                       axisWorldToUnitWorld(unit, axis, k)))
    /\ UNCHANGED <<unit, scales, scaleCall, flexVars, axisVars, anchorVars, compVars>>

UnitWorldToAxisWorld(k) ==
    /\ Len(conv) < MaxConversions
    /\ conv' = Append(conv, Conversion("unitWorldToAxisWorld", k,
                                       unitWorldToAxisWorld(unit, axis, k)))
    /\ UNCHANGED <<unit, scales, scaleCall, flexVars, axisVars, anchorVars, compVars>>

\* The results of the conversions op made so far: a caller may convert them back.
Results(op) == { conv[i].result : i \in { j \in 1..Len(conv) : conv[j].op = op } }

NextUnit ==
    \/ \E v \in UnitValues \ {NaN} : UnitSetWorldStart(v)
    \/ \E v \in UnitValues \ {NaN} : UnitSetWorldEnd(v)
    \/ \E k \in UnitInputs \cup Results("unitWorldToAxisWorld") : AxisWorldToUnitWorld(k)
    \/ \E k \in UnitInputs \cup Results("axisWorldToUnitWorld") : UnitWorldToAxisWorld(k)

SpecUnit == InitUnit /\ [][NextUnit]_vars

-----------------------------------------------------------------------------
(* The WLayout of a child and the parent that resolves it *)

PivotValues == { Point(Q(1, 2), Q(1, 2)), Point(F(0), F(0)), Point(F(1), Q(1, 4)) }

OffsetValues ==
    { Rect(F(0), F(0), F(0), F(0)),
      Rect(F(10), F(5), F(40), F(20)),
      Rect(Q(1, 2), F(-3), Q(5, 2), Q(7, 4)) }

\* Anchors: stretched on both axes, pinned on both, pinned on x only, pinned on y only.
AnchorValues ==
    { BorderSize(F(0), F(0), F(1), F(1)),
      BorderSize(F(0), F(0), F(0), F(0)),
      BorderSize(F(0), Q(1, 2), F(1), Q(1, 2)),
      BorderSize(Q(1, 4), F(0), Q(1, 4), F(1)) }

\* The rectangles of the parent; the width of the last one, 2^24 + 1, is not a float.
AnchorParents ==
    { Rect(0, 0, 300, 40), Rect(5, 3, 100, 61), Rect(-7, 2, 1, 0),
      Rect(0, 0, Two24 + 1, 40) }

InitAnchor ==
    /\ wlayout = DefaultWLayout
    /\ resolved = <<>>
    /\ FlexIdle /\ AxisIdle /\ UnitIdle /\ CompIdle

SetPivot(p) ==
    /\ wlayout' = [wlayout EXCEPT !.pivot = p]
    /\ UNCHANGED <<resolved, flexVars, axisVars, unitVars, compVars>>

SetOffset(o) ==
    /\ wlayout' = [wlayout EXCEPT !.offset = o]
    /\ UNCHANGED <<resolved, flexVars, axisVars, unitVars, compVars>>

SetAnchors(a) ==
    /\ wlayout' = [wlayout EXCEPT !.anchors = a]
    /\ UNCHANGED <<resolved, flexVars, axisVars, unitVars, compVars>>

\* WParentLayout::applyLayout on a parent of rectangle bParent, for the child that
\* holds wlayout: b = c->getLayout().LayoutBounds(bParent).
ParentApplyLayout(bp) ==
    /\ resolved' = << [layout |-> wlayout, parent |-> bp,
                       child |-> LayoutBounds(wlayout, bp)] >>
    /\ UNCHANGED <<wlayout, flexVars, axisVars, unitVars, compVars>>

NextAnchor ==
    \/ \E p \in PivotValues : SetPivot(p)
    \/ \E o \in OffsetValues : SetOffset(o)
    \/ \E a \in AnchorValues : SetAnchors(a)
    \/ \E bp \in AnchorParents : ParentApplyLayout(bp)

SpecAnchor == InitAnchor /\ [][NextAnchor]_vars

-----------------------------------------------------------------------------
(* A BaseComponent, its PreferredSize and the message loop *)

PreferredValues == { 0, 50 }

InitAsync ==
    /\ CompIdle
    /\ FlexIdle /\ AxisIdle /\ UnitIdle /\ AnchorIdle

\* Every step adds at most two entries to the log.
LogHasRoom == Len(comp.log) + 2 <= MaxEvents

SetPreferredWidth(v, notify) ==
    /\ comp.alive /\ LogHasRoom
    /\ comp' = setPreferredWidth(comp, v, notify)
    /\ UNCHANGED <<container, ownedChildren, deletes, flexVars, axisVars, unitVars, anchorVars>>

SetPreferredSize(w, h, notify) ==
    /\ comp.alive /\ LogHasRoom
    /\ comp' = setPreferredSize(comp, w, h, notify)
    /\ UNCHANGED <<container, ownedChildren, deletes, flexVars, axisVars, unitVars, anchorVars>>

HostResized ==
    /\ comp.alive /\ LogHasRoom
    /\ comp' = hostResized(comp)
    /\ UNCHANGED <<container, ownedChildren, deletes, flexVars, axisVars, unitVars, anchorVars>>

IdleTick ==
    /\ LogHasRoom
    /\ comp' = idleTick(comp)
    /\ UNCHANGED <<container, ownedChildren, deletes, flexVars, axisVars, unitVars, anchorVars>>

NextAsync ==
    \/ \E v \in PreferredValues, n \in BOOLEAN : SetPreferredWidth(v, n)
    \/ \E w \in PreferredValues, h \in PreferredValues, n \in BOOLEAN :
           SetPreferredSize(w, h, n)
    \/ HostResized
    \/ IdleTick

SpecAsync == InitAsync /\ [][NextAsync]_vars

-----------------------------------------------------------------------------
(* The life of a BaseComponent: mutations of its PreferredSize, idle ticks of
   the message loop, and its destruction *)

\* BaseComponent::~BaseComponent: clearOwnedChildren(), then the members are
\* destroyed.  Nothing can be called on the component afterwards; the message
\* loop keeps running.
Destroy ==
    /\ comp.alive /\ LogHasRoom
    /\ LET o == clearOwnedChildren(Owner(ownedChildren, deletes))
       IN  /\ ownedChildren' = o.ownedChildren
           /\ deletes' = o.deletes
    /\ comp' = destroy(comp)
    /\ UNCHANGED <<container, flexVars, axisVars, unitVars, anchorVars>>

NextLifetime ==
    \/ \E v \in PreferredValues, n \in BOOLEAN : SetPreferredWidth(v, n)
    \/ \E w \in PreferredValues, h \in PreferredValues, n \in BOOLEAN :
           SetPreferredSize(w, h, n)
    \/ HostResized
    \/ IdleTick
    \/ Destroy

SpecLifetime == InitAsync /\ [][NextLifetime]_vars

-----------------------------------------------------------------------------
(* The children a BaseComponent owns *)

\* The callers hand over Components that are alive, and call the component while
\* it is alive.
CanOwn(c) == comp.alive /\ deletes[c] = 0 /\ Len(ownedChildren) < MaxOwned

SetOwner(o) ==
    /\ ownedChildren' = o.ownedChildren
    /\ deletes' = o.deletes
    /\ UNCHANGED <<comp, container, flexVars, axisVars, unitVars, anchorVars>>

AddOwnedChildren(c) ==
    /\ CanOwn(c)
    /\ SetOwner(addOwnedChildren(Owner(ownedChildren, deletes), c))

OwnAndMakeVisible(c) ==
    /\ CanOwn(c)
    /\ SetOwner(ownAndMakeVisible(Owner(ownedChildren, deletes), c))

RemoveOwnedChildren(c) ==
    /\ comp.alive
    /\ SetOwner(removeOwnedChildren(Owner(ownedChildren, deletes), c))

ClearOwnedChildren ==
    /\ comp.alive
    /\ SetOwner(clearOwnedChildren(Owner(ownedChildren, deletes)))

NextOwnership ==
    \/ \E c \in Components : AddOwnedChildren(c)
    \/ \E c \in Components : OwnAndMakeVisible(c)
    \/ \E c \in Components : RemoveOwnedChildren(c)
    \/ ClearOwnedChildren
    \/ Destroy

SpecOwnership == InitAsync /\ [][NextOwnership]_vars

-----------------------------------------------------------------------------
(* WChartScaleTransform objects and the calls made through their UnitTransforms *)

\* The objects the model can hold.
ScaleIds == { "s1", "s2" }

\* What the uninitialized worldStart and worldEnd of a new UnitTransform hold.
Uninitialized == { <<NaN, NaN>>, <<F(0), F(5)>> }

UnitMembers == { "xUnit", "yUnit" }

InitScale ==
    /\ scales = <<>>
    /\ scaleCall = <<>>
    /\ unit = UnitTransform(F(0), F(1))
    /\ conv = <<>>
    /\ FlexIdle /\ AxisIdle /\ AnchorIdle /\ CompIdle

\* scales with the new object s under id.
WithObject(id, s) ==
    [i \in DOMAIN scales \cup {id} |-> IF i = id THEN s ELSE scales[i]]

ScaleCall(op, id, member) == << [op |-> op, id |-> id, member |-> member] >>

\* WChartScaleTransform id;
ConstructScale(id, ux, uy) ==
    /\ id \notin DOMAIN scales
    /\ scales' = WithObject(id, WChartScaleTransform(id, ux, uy))
    /\ scaleCall' = <<>>
    /\ UNCHANGED <<unit, conv, flexVars, axisVars, anchorVars, compVars>>

\* WChartScaleTransform id(from);
CopyConstructScale(id, from) ==
    /\ id \notin DOMAIN scales
    /\ from \in DOMAIN scales
    /\ scales' = WithObject(id, CopyWChartScaleTransform(scales[from]))
    /\ scaleCall' = <<>>
    /\ UNCHANGED <<unit, conv, flexVars, axisVars, anchorVars, compVars>>

\* A call through the UnitTransform `member` of object id that results in ss.
ThroughUnit(op, id, member, ss) ==
    /\ scales' = ss
    /\ scaleCall' = ScaleCall(op, id, member)
    /\ UNCHANGED <<unit, conv, flexVars, axisVars, anchorVars, compVars>>

ScaleUnitSetZoomLevel(id, member, newZoom, pivot) ==
    /\ id \in DOMAIN scales
    /\ ThroughUnit("setZoomLevel", id, member,
                   scaleUnitSetZoomLevel(scales, scales[id][member], newZoom, pivot))

ScaleUnitZoomIn(id, member, zoomStep, pivot) ==
    /\ id \in DOMAIN scales
    /\ ThroughUnit("zoomIn", id, member,
                   scaleUnitZoomIn(scales, scales[id][member], zoomStep, pivot))

ScaleUnitSetViewportStart(id, member, value) ==
    /\ id \in DOMAIN scales
    /\ ThroughUnit("setViewportStart", id, member,
                   scaleUnitSetViewportStart(scales, scales[id][member], value))

NextScale ==
    \/ \E id \in ScaleIds, ux \in Uninitialized, uy \in Uninitialized :
           ConstructScale(id, ux, uy)
    \/ \E id \in ScaleIds, from \in ScaleIds : CopyConstructScale(id, from)
    \/ \E id \in ScaleIds, m \in UnitMembers, z \in {Q(1, 2), F(1)} :
           ScaleUnitSetZoomLevel(id, m, z, F(0))
    \/ \E id \in ScaleIds, m \in UnitMembers : ScaleUnitZoomIn(id, m, Q(1, 2), F(0))
    \/ \E id \in ScaleIds, m \in UnitMembers : ScaleUnitSetViewportStart(id, m, F(0))

SpecScale == InitScale /\ [][NextScale]_vars

-----------------------------------------------------------------------------
(* A container and its child: comp is a child of container, and the layout pass
   of container reads the PreferredSize of comp *)

\* A mutation leaves room in the log for the idle tick that follows it.
ChildLogHasRoom == Len(comp.log) + 3 <= MaxEvents
ContainerLogHasRoom == Len(container.log) + 4 <= MaxEvents

\* The child's PreferredSize is changed.
ChildSetPreferredWidth(v, notify) ==
    /\ ChildLogHasRoom
    /\ comp' = setPreferredWidth(comp, v, notify)
    /\ UNCHANGED <<container, ownedChildren, deletes>>
    /\ UNCHANGED <<flexVars, axisVars, unitVars, anchorVars>>

\* The container's PreferredSize is changed.
ContainerSetPreferredWidth(v, notify) ==
    /\ ContainerLogHasRoom
    /\ container' = setPreferredWidth(container, v, notify)
    /\ UNCHANGED <<comp, ownedChildren, deletes>>
    /\ UNCHANGED <<flexVars, axisVars, unitVars, anchorVars>>

\* The host changes the container's bounds: its resized runs its layout pass.  (The
\* resized that the pass causes on a child whose size it changes lays out the
\* child's own children; the machine leaves it out.)
ContainerResizedByHost ==
    /\ ContainerLogHasRoom
    /\ container' = hostResized(container)
    /\ UNCHANGED <<comp, ownedChildren, deletes>>
    /\ UNCHANGED <<flexVars, axisVars, unitVars, anchorVars>>

\* An idle tick of the message loop with an update pending: the pending updates of
\* both components are delivered.
TreeIdleTick ==
    /\ comp.updatePending \/ container.updatePending
    /\ comp' = IF comp.updatePending THEN idleTick(comp) ELSE comp
    /\ container' = IF container.updatePending THEN idleTick(container) ELSE container
    /\ UNCHANGED <<ownedChildren, deletes>>
    /\ UNCHANGED <<flexVars, axisVars, unitVars, anchorVars>>

NextTree ==
    \/ \E v \in PreferredValues, n \in BOOLEAN : ChildSetPreferredWidth(v, n)
    \/ \E v \in PreferredValues, n \in BOOLEAN : ContainerSetPreferredWidth(v, n)
    \/ ContainerResizedByHost
    \/ TreeIdleTick

\* The message loop keeps running: a pending update is delivered.  Nothing
\* obliges the host or the application to act.
SpecTree == InitAsync /\ [][NextTree]_vars /\ WF_vars(TreeIdleTick)

-----------------------------------------------------------------------------
(* A BaseComponent whose PreferredSize other objects listen to and whose owner
   replaces it *)

\* The listeners of other objects.
OtherListeners == { "other1", "other2" }

\* The WPreferredSize objects a caller passes to BaseComponent::setPreferredSize:
\* a new one, or one the caller has set a width on or registered a listener on.
PreferredSizeArguments ==
    { [NewWPreferredSize EXCEPT !.preferredWidth = w, !.listeners = ls] :
        w \in PreferredValues, ls \in { <<>>, <<"other1">> } }

AddListener(l) ==
    /\ comp.alive
    /\ comp' = addListener(comp, l)
    /\ UNCHANGED <<container, ownedChildren, deletes, flexVars, axisVars, unitVars, anchorVars>>

RemoveListener(l) ==
    /\ comp.alive
    /\ comp' = removeListener(comp, l)
    /\ UNCHANGED <<container, ownedChildren, deletes, flexVars, axisVars, unitVars, anchorVars>>

BaseComponentSetPreferredSize(psize) ==
    /\ comp.alive
    /\ comp' = BaseComponent_setPreferredSize(comp, psize)
    /\ UNCHANGED <<container, ownedChildren, deletes, flexVars, axisVars, unitVars, anchorVars>>

NextListeners ==
    \/ \E l \in OtherListeners : AddListener(l)
    \/ \E l \in OtherListeners : RemoveListener(l)
    \/ \E v \in PreferredValues, n \in BOOLEAN : SetPreferredWidth(v, n)
    \/ \E p \in PreferredSizeArguments : BaseComponentSetPreferredSize(p)
    \/ IdleTick

SpecListeners == InitAsync /\ [][NextListeners]_vars

-----------------------------------------------------------------------------
(* Claims about WFlexLayout *)

\* The valid children of the current state and their assigned main-axis extents.
Valid == getValidChildren(children)
AssignedMainSize(i) == IF IsRow(options) THEN bounds[i].w ELSE bounds[i].h
AssignedMainPos(i) == IF IsRow(options) THEN bounds[i].x ELSE bounds[i].y
AssignedMainSum == SumSeq([k \in 1..Len(Valid) |-> AssignedMainSize(Valid[k])])
StretchNoWrapPass ==
    /\ laidOut
    /\ options.justify = "Stretch"
    /\ options.wrap = "NoWrap"
    /\ Len(Valid) >= 1

\* C1 as stated: under justify = Stretch and wrap = NoWrap, with n >= 1 valid
\* children, the assigned main-axis sizes plus (n-1)*spacing add up to the
\* container's main-axis size.
C1_StretchFillsContainer ==
    StretchNoWrapPass =>
        AssignedMainSum + (Len(Valid) - 1) * options.spacing = mainSize(options, bParent)

\* C1 amended: under justify = Stretch and wrap = NoWrap every valid child gets
\* max(minMain, stretchSize), stretchSize being (mainSize - (n-1)*spacing) / n
\* truncated toward zero; when no child's minimum exceeds stretchSize the sizes plus
\* (n-1)*spacing equal the container's main size less the remainder of that division,
\* hence the container's main size exactly when n divides mainSize - (n-1)*spacing.
C1_StretchSum ==
    StretchNoWrapPass =>
        LET n == Len(Valid)
            avail == mainSize(options, bParent) - (n - 1) * options.spacing
            q == TruncDiv(avail, n)
        IN  /\ \A k \in 1..n :
                  AssignedMainSize(Valid[k]) = jmax(MinMain(options, children[Valid[k]]), q)
            /\ (\A k \in 1..n : MinMain(options, children[Valid[k]]) <= q)
                  => AssignedMainSum + (n - 1) * options.spacing
                        = mainSize(options, bParent) - (avail - n * q)

\* C1 witness: a Stretch pass over several valid children, with spacing, whose
\* sizes and spacing fill the container exactly.
C1_Witness ==
    /\ StretchNoWrapPass
    /\ Len(Valid) >= 2
    /\ options.spacing > 0
    /\ AssignedMainSum + (Len(Valid) - 1) * options.spacing = mainSize(options, bParent)

\* C2 as stated: under justify = SpaceBetween, direction Row, no wrap and n >= 2
\* valid children of flexible weight 0, each child starts at the previous child's
\* position plus its size plus spacing plus remaining/(n-1); a container of width 300
\* at x = 0 with three children of preferred width 50 and spacing 10 places them at
\* x = 0, 125, 250, each 50 wide.
C2_SpaceBetweenGap ==
    ( /\ laidOut
      /\ options.justify = "SpaceBetween"
      /\ options.direction = "Row"
      /\ options.wrap = "NoWrap"
      /\ Len(Valid) >= 2
      /\ \A k \in 1..Len(Valid) : children[Valid[k]].flexibleWidth = 0 )
    => LET n == Len(Valid)
           gap == TruncDiv(remaining(options, bParent, children), n - 1)
       IN  /\ \A k \in 2..n :
                 bounds[Valid[k]].x
                    = bounds[Valid[k-1]].x + bounds[Valid[k-1]].w + options.spacing + gap
           /\ ( /\ bParent.x = 0 /\ bParent.w = 300 /\ n = 3 /\ options.spacing = 10
                /\ \A k \in 1..n : /\ children[Valid[k]].preferredWidth = 50
                                   /\ children[Valid[k]].minWidth <= 50 )
              => /\ <<bounds[Valid[1]].x, bounds[Valid[2]].x, bounds[Valid[3]].x>>
                        = <<0, 125, 250>>
                 /\ \A k \in 1..n : bounds[Valid[k]].w = 50

\* The sum of the preferred main extents of a line's children and the spacing
\* between them.
LineUsage(line) ==
    SumSeq([k \in 1..Len(line.children) |-> PrefMain(options, children[line.children[k]])])
        + (Len(line.children) - 1) * options.spacing

\* C3: under wrap = Wrap every line of the pass that holds more than one child uses
\* no more than the container's main size (preferred main extents plus the spacing
\* between them); only a line of a single child may exceed it.
C3_WrapLinesFit ==
    (laidOut /\ options.wrap = "Wrap") =>
        \A l \in 1..Len(lines) :
            Len(lines[l].children) >= 2 => LineUsage(lines[l]) <= mainSize(options, bParent)

\* C3 witness: a wrapping pass with spacing that flushed a line of two children
\* and then another line.
C3_Witness ==
    /\ laidOut
    /\ options.wrap = "Wrap"
    /\ options.spacing > 0
    /\ Len(lines) >= 2
    /\ Len(lines[1].children) = 2

\* C16 as stated: a negative remaining is propagated arithmetically: under
\* justify = SpaceAround the first laid-out child is at the container's origin plus
\* (remaining / count) / 2, under SpaceEvenly at the origin plus
\* remaining / (count + 1), the divisions being those of signed integers, for every
\* count >= 1 and every remaining, the negative ones included.
C16_SignedLeadingGap ==
    (laidOut /\ Len(Valid) >= 1) =>
        LET rem == remaining(options, bParent, children)
            origin == mainOrigin(options, bParent)
        IN  /\ options.justify = "SpaceAround" =>
                  AssignedMainPos(Valid[1]) = origin + TruncDiv(TruncDiv(rem, Len(Valid)), 2)
            /\ options.justify = "SpaceEvenly" =>
                  AssignedMainPos(Valid[1]) = origin + TruncDiv(rem, Len(Valid) + 1)

\* The leading offset the justify switch derives: 0 for FlexStart, remaining for
\* FlexEnd, remaining / 2 for Center, half the gap for SpaceAround, the gap for
\* SpaceEvenly, the gap being the one the pass computed.
LeadingOffset ==
    LET rem == remaining(options, bParent, children)
        gap == justifySpace(options, rem, Len(Valid))
    IN  CASE options.justify = "FlexEnd" -> rem
          [] options.justify = "Center" -> TruncDiv(rem, 2)
          [] options.justify = "SpaceAround" -> TruncDiv(gap, 2)
          [] options.justify = "SpaceEvenly" -> gap
          [] OTHER -> 0

\* C18 as stated: under wrap = Wrap the first child of every line, not only of the
\* first, is placed at the container's origin plus the leading offset derived
\* from justify.
C18_EveryLineStartsAtLeadingOffset ==
    (laidOut /\ options.wrap = "Wrap") =>
        \A n \in 1..Len(lines) :
            AssignedMainPos(lines[n].children[1])
                = mainOrigin(options, bParent) + LeadingOffset

AssignedCrossSize(i) == IF IsRow(options) THEN bounds[i].h ELSE bounds[i].w
AssignedCrossPos(i) == IF IsRow(options) THEN bounds[i].y ELSE bounds[i].x

\* C19 as stated: after a pass with align = Stretch and wrap = NoWrap every
\* laid-out child is as large across as the container (its height for Row, its
\* width for Column) and sits at the container's cross origin, whatever the
\* children prefer across.
C19_StretchFillsCrossExtent ==
    (laidOut /\ options.align = "Stretch" /\ options.wrap = "NoWrap") =>
        \A k \in 1..Len(Valid) :
            /\ AssignedCrossSize(Valid[k]) = crossSize(options, bParent)
            /\ AssignedCrossPos(Valid[k]) = crossOrigin(options, bParent)

-----------------------------------------------------------------------------
(* Claims about AxisTransform *)

\* The AxisTransform as the i-th call left it.
After(i) == IF i = Len(calls) THEN axis ELSE calls[i + 1].before

InUnitInterval(a) == FLe(F(0), a) /\ FLe(a, F(1))

\* The floating-point tolerance of the comparisons is 1 / ToleranceDenominator.
ToleranceDenominator == 2 ^ 12

\* a and b are finite and equal up to the floating-point tolerance.
Close(a, b) ==
    /\ IsFinite(a) /\ IsFinite(b)
    /\ LET d == Sum(a, FNeg(b)) IN Abs(d[1]) <= d[2] \div ToleranceDenominator
NonDegenerateWorld(t) == t.worldEnd # t.worldStart
SameViewport(s, t) ==
    s.viewportStart = t.viewportStart /\ s.viewportEnd = t.viewportEnd
CloseViewport(s, t) ==
    Close(s.viewportStart, t.viewportStart) /\ Close(s.viewportEnd, t.viewportEnd)

ZoomInThenOut(i) ==
    /\ i + 1 <= Len(calls)
    /\ calls[i].op = "zoomIn"
    /\ calls[i + 1].op = "zoomOut"
    /\ calls[i + 1].arg = calls[i].arg
    /\ calls[i + 1].pivot = calls[i].pivot
    /\ InUnitInterval(calls[i].pivot)
    /\ NonDegenerateWorld(calls[i].before)
    /\ FLt(F(0), getZoomLevel(After(i)))
    /\ FLt(getZoomLevel(After(i)), F(1))

\* C5 as stated: from any starting state, zoomIn(s, p) that leaves the zoom level
\* strictly inside (0,1), followed by zoomOut(s, p), restores viewportStart and
\* viewportEnd (up to the floating-point tolerance).
C5_ZoomInOutRestores ==
    \A i \in 1..Len(calls) :
        ZoomInThenOut(i) => CloseViewport(After(i + 1), calls[i].before)

\* C5 amended: from a starting state whose zoom level lies in [0,1], zoomIn(s, p)
\* that leaves the zoom level strictly inside (0,1), followed by zoomOut(s, p),
\* restores viewportStart and viewportEnd (up to the floating-point tolerance).
C5_ZoomInOutRestoresFromUnitZoom ==
    \A i \in 1..Len(calls) :
        (ZoomInThenOut(i) /\ InUnitInterval(getZoomLevel(calls[i].before)))
            => CloseViewport(After(i + 1), calls[i].before)

\* C5 witness: zoomIn then zoomOut with the same step and a pivot other than 0, from a
\* zoom level in [0,1], the zoomIn having moved both ends of the viewport.
C5_Witness ==
    \E i \in 1..Len(calls) :
        /\ ZoomInThenOut(i)
        /\ InUnitInterval(getZoomLevel(calls[i].before))
        /\ After(i).viewportStart # calls[i].before.viewportStart
        /\ After(i).viewportEnd # calls[i].before.viewportEnd
        /\ SameViewport(After(i + 1), calls[i].before)

\* The zoom level zoomIn or zoomOut call c aims at, clamped.
ClampedTarget(c) ==
    clamp(FAdd(getZoomLevel(c.before), IF c.op = "zoomIn" THEN c.arg ELSE FNeg(c.arg)),
          F(0), F(1))

StartAxis == IF calls = <<>> THEN axis ELSE calls[1].before

\* The viewport interval of t is non-degenerate: its ends differ and the zoom
\* level is above 0.
NonDegenerateViewport(t) ==
    /\ t.viewportStart # t.viewportEnd
    /\ FLt(F(0), getZoomLevel(t))

\* C21 as stated: from an AxisTransform with non-degenerate world and viewport
\* intervals, after any sequence of zoomIn / zoomOut calls with pivots in [0,1]
\* the viewport interval is still non-degenerate (viewportStart # viewportEnd and
\* zoom level > 0), so the divisor of axisViewportToUnitViewport is not 0.
C21_ZoomKeepsViewportNonDegenerate ==
    ( /\ NonDegenerateWorld(StartAxis)
      /\ NonDegenerateViewport(StartAxis)
      /\ \A i \in 1..Len(calls) :
            /\ calls[i].op \in { "zoomIn", "zoomOut" }
            /\ InUnitInterval(calls[i].pivot) )
    => NonDegenerateViewport(axis)

-----------------------------------------------------------------------------
(* Claims about the layout passes *)

\* The children of the current state that do not say ignoreLayout, in order, and
\* the container as it would be without the others.
NotIgnored == SelectSeq([i \in 1..Len(children) |-> i],
                        LAMBDA i : ~children[i].ignoreLayout)
WithoutIgnored(f) == [k \in 1..Len(NotIgnored) |-> f[NotIgnored[k]]]

\* A step is a layout pass: it is not a call of setParentLayout.
IsLayoutPass == parentLayout' = parentLayout

\* C13: a layout pass of any strategy (WParentLayout, WBaseComponentLayout,
\* WFlexLayout) leaves the bounds of every child with ignoreLayout = true as they
\* were; it gives the other children the bounds it would give them if the ignored
\* children were not there (they count neither in the child count nor in
\* totalPreferredMain or totalFlexible); with no child left it changes no bounds.
C13_IgnoredChildrenExcluded ==
    [][IsLayoutPass =>
         /\ \A i \in 1..Len(children) :
                children[i].ignoreLayout => bounds'[i] = bounds[i]
         /\ NotIgnored = <<>> => bounds' = bounds
         /\ LET alone == BaseComponent_applyLayout(
                             parentLayout, options, bParent',
                             WithoutIgnored(children),
                             [k \in 1..Len(NotIgnored) |-> wlayout],
                             WithoutIgnored(bounds))
            IN  /\ WithoutIgnored(bounds') = alone.bnds
                /\ Len(lines') = Len(alone.lines)
                /\ \A n \in 1..Len(lines') :
                       Len(lines'[n].children) = Len(alone.lines[n].children)]_vars

\* C13 witness: a WFlexLayout pass ran over a container with a child that says
\* ignoreLayout, still where it had been placed by hand, and two or more other
\* children, all moved.
C13_Witness ==
    /\ laidOut /\ parentLayout = "WFlexLayout" /\ lines # <<>>
    /\ \E i \in 1..Len(children) :
           children[i].ignoreLayout /\ bounds[i] = PlacedByHand(Len(children))[i]
    /\ Len(NotIgnored) >= 2
    /\ \A k \in 1..Len(NotIgnored) :
           bounds[NotIgnored[k]] # PlacedByHand(Len(children))[NotIgnored[k]]

-----------------------------------------------------------------------------
(* Claims about UnitTransform *)

\* A range is non-degenerate when its ends are finite and differ.
NonDegenerate(start, end) == IsFinite(start) /\ IsFinite(end) /\ start # end

\* Conversion i is axisWorldToUnitWorld(x) and conversion i + 1 is
\* unitWorldToAxisWorld of its result.
RoundTrip(i) ==
    /\ i + 1 <= Len(conv)
    /\ conv[i].op = "axisWorldToUnitWorld"
    /\ conv[i + 1].op = "unitWorldToAxisWorld"
    /\ conv[i + 1].arg = conv[i].result

SourceRange(i) ==
    IF conv[i].op = "axisWorldToUnitWorld"
    THEN <<axis.worldStart, axis.worldEnd>>
    ELSE <<unit.worldStart, unit.worldEnd>>

\* r is a float: a finite number, an infinity or NaN, and no report of an error.
IsNumeric(r) == IsFinite(r) \/ IsInf(r) \/ IsNaN(r)

\* C14 as stated: with a degenerate range (worldEnd = worldStart), getZoomLevel and
\* the conversions that go through mapValue report an error and give no numeric
\* result (no infinity, no NaN); the transform is left as it was.
C14_DegenerateRangeReported ==
    /\ axis.worldEnd = axis.worldStart => ~IsNumeric(getZoomLevel(axis))
    /\ \A i \in 1..Len(conv) :
           SourceRange(i)[1] = SourceRange(i)[2] => ~IsNumeric(conv[i].result)

-----------------------------------------------------------------------------
(* Claims about WChartScaleTransform *)

\* The AxisTransform member a UnitTransform member goes with.
WorldOf(member) == IF member = "xUnit" THEN "xWorld" ELSE "yWorld"

\* C15 as stated: in every WChartScaleTransform object that exists, constructed or
\* copied, xUnit refers to the xWorld of that object and yUnit to its yWorld; so
\* a zoom or viewport change made through a UnitTransform of an object changes
\* the AxisTransform of the same axis of that object, and no other AxisTransform
\* of any object.
C15_UnitsReferToOwnWorlds ==
    /\ [](\A id \in DOMAIN scales :
              /\ scales[id].xUnit.axisT = <<id, "xWorld">>
              /\ scales[id].yUnit.axisT = <<id, "yWorld">>)
    /\ [][\A c \in { scaleCall'[i] : i \in DOMAIN scaleCall' } :
              \A id \in DOMAIN scales, w \in { "xWorld", "yWorld" } :
                  <<id, w>> # <<c.id, WorldOf(c.member)>>
                      => scales'[id][w] = scales[id][w]]_vars

-----------------------------------------------------------------------------
(* Claims about WLayout::LayoutBounds *)

\* C8: on an axis whose two anchors are equal, the resolved size of the child is the
\* offset's size on that axis, rounded, whatever the parent rectangle and the pivot.
C8_FixedAxisSize ==
    \A i \in 1..Len(resolved) :
        LET r == resolved[i]
        IN  /\ r.layout.anchors.left = r.layout.anchors.right
                => r.child.w = RoundToInt(r.layout.offset.w)
            /\ r.layout.anchors.top = r.layout.anchors.bottom
                => r.child.h = RoundToInt(r.layout.offset.h)

\* C8 witness: a child pinned on x with a non-zero offset width, resolved in a parent
\* of another width and origin, with a pivot other than the default.
C8_Witness ==
    \E i \in 1..Len(resolved) :
        LET r == resolved[i]
        IN  /\ r.layout.anchors.left = r.layout.anchors.right
            /\ r.layout.offset.w # F(0)
            /\ r.layout.pivot # DefaultWLayout.pivot
            /\ r.parent.x # 0
            /\ r.parent.w # RoundToInt(r.layout.offset.w)
            /\ r.child.w = RoundToInt(r.layout.offset.w)

\* C9: the default-constructed WLayout (anchors left 0, top 0, right 1, bottom 1,
\* offset 0, pivot 1/2, 1/2) resolves to the parent rectangle itself, for every
\* parent rectangle.
C9_DefaultFillsParent ==
    \A i \in 1..Len(resolved) :
        resolved[i].layout = DefaultWLayout => resolved[i].child = resolved[i].parent

-----------------------------------------------------------------------------
(* Claims about the deferred relayout *)

\* The last idle tick before entry i of the log, 0 if there is none.
PrevTick(i) ==
    LET ticks == { j \in 1..(i - 1) : comp.log[j] = "tick" }
    IN  IF ticks = {} THEN 0 ELSE CHOOSE j \in ticks : \A k \in ticks : k <= j

\* The first idle tick after entry i of the log, Len + 1 if there is none.
NextTick(i) ==
    LET ticks == { j \in (i + 1)..Len(comp.log) : comp.log[j] = "tick" }
    IN  IF ticks = {} THEN Len(comp.log) + 1
        ELSE CHOOSE j \in ticks : \A k \in ticks : j <= k

\* The calls of triggerAsyncResize between the tick before entry i and entry i.
Scheduled(i) == { j \in (PrevTick(i) + 1)..(i - 1) : comp.log[j] = "trigger" }

FirstScheduled(i) == CHOOSE j \in Scheduled(i) : \A k \in Scheduled(i) : j <= k

\* The runs of resized, other than those of the host, between the first call of
\* triggerAsyncResize before the tick at entry i and the tick after it.
CallbackRuns(i) ==
    { j \in (FirstScheduled(i) + 1)..(NextTick(i) - 1) :
        comp.log[j] = "resized" /\ comp.log[j - 1] # "host" }

\* C10: when triggerAsyncResize was called k >= 1 times since the last idle tick,
\* resized runs exactly once for them, at the next idle tick.
C10_CoalescedResize ==
    \A i \in 1..Len(comp.log) :
        (comp.log[i] = "tick" /\ Scheduled(i) # {}) => CallbackRuns(i) = {i + 1}

\* C10 witness: two notifying mutations, then an idle tick that ran resized.
C10_Witness ==
    \E i \in 1..Len(comp.log) :
        /\ comp.log[i] = "tick"
        /\ Cardinality(Scheduled(i)) >= 2
        /\ CallbackRuns(i) = {i + 1}

-----------------------------------------------------------------------------
(* Claims about the destruction of a BaseComponent *)

\* The entry of the log at which the component was destroyed, 0 if it is alive.
Destroyed ==
    LET ds == { j \in 1..Len(comp.log) : comp.log[j] = "destroy" }
    IN  IF ds = {} THEN 0 ELSE CHOOSE j \in ds : TRUE

\* C11: when a component is destroyed while a deferred relayout is pending, the
\* pending update is dropped: whatever the order of the calls of
\* triggerAsyncResize, the destruction and the idle ticks, resized never runs on
\* the component after its destruction.
C11_NoResizeAfterDestroy ==
    /\ ~comp.alive => ~comp.updatePending
    /\ \A j \in 1..Len(comp.log) :
           (Destroyed # 0 /\ j > Destroyed) => comp.log[j] # "resized"

\* C11 witness: triggerAsyncResize was called and no idle tick came before the
\* component was destroyed; an idle tick came afterwards.
C11_Witness ==
    /\ Destroyed > 1
    /\ comp.log[Destroyed - 1] = "trigger"
    /\ Destroyed < Len(comp.log)
    /\ comp.log[Len(comp.log)] = "tick"

-----------------------------------------------------------------------------
(* Claims about the children a BaseComponent owns *)

\* An entry of _ownedChildren points to c.
Registered(c) == \E i \in 1..Len(ownedChildren) : ownedChildren[i] = c

\* C12: whatever the sequence of addOwnedChildren / ownAndMakeVisible,
\* removeOwnedChildren, clearOwnedChildren and the destruction of the parent, a
\* child handed to the parent is alive while it is registered, is never released
\* twice, and is released when it stops being registered (on an explicit release
\* or on the destruction of the parent, which leaves nothing registered).
C12_ReleasedExactlyOnce ==
    /\ [](\A c \in Components :
              /\ Registered(c) => deletes[c] = 0
              /\ deletes[c] <= 1
              /\ ~comp.alive => ~Registered(c))
    /\ [][\A c \in Components :
              (Registered(c) /\ ~Registered(c)') => deletes'[c] = deletes[c] + 1]_vars

-----------------------------------------------------------------------------
(* Claims about a container and its child *)

\* The layout passes the container has run.
Passes == Cardinality({ j \in 1..Len(container.log) : container.log[j] = "resized" })

\* C17 as stated: when a notifying mutation has changed the PreferredSize of the
\* child (its listener has run and its update is pending), the container runs its
\* layout pass again, at a later idle tick, without the host changing any bounds.
C17_ContainerRelaysOut ==
    \A n \in 0..MaxEvents :
        (comp.updatePending /\ Passes = n) ~> (Passes > n)

-----------------------------------------------------------------------------
-----------------------------------------------------------------------------
(* The component's own listener *)

\* How many times listener l is registered on the component's PreferredSize.
Registrations(l) ==
    Cardinality({ k \in DOMAIN comp.wPreferredSize.listeners :
                    comp.wPreferredSize.listeners[k] = l })

\* C20 as stated: as long as the component lives, after any sequence of
\* PreferredSize setter calls, addListener / removeListener calls by others and
\* BaseComponent::setPreferredSize(psize) calls, the component's own relayout
\* listener is registered exactly once on its PreferredSize.
C20_OwnListenerRegisteredOnce == comp.alive => Registrations(OwnListener) = 1


=============================================================================
